---- MODULE Spec2Model ----
(***************************************************************************)
(* A model of layered-nlp's annotated line (src/src/ll_line.rs): the       *)
(* token sequence, the four co-indexes of LLLineAttrs, LLLine::new's       *)
(* auto-annotation, the resolver execution protocol of LLLine::run, the    *)
(* type-erased insertion LLLine::add_any_attrs, and the read operations    *)
(* query and find.                                                         *)
(*                                                                         *)
(* Token indexes are usize values counted from 0, as in the source; TLA+   *)
(* sequences are counted from 1, so slot i of a Vec is element i + 1.      *)
(* A text is a sequence of one-character strings, so that chars().count()  *)
(* is Len and String::from_iter is concatenation.                          *)
(***************************************************************************)
EXTENDS Integers, Sequences, FiniteSets, TLC

\* The attributes that resolvers and add_any_attrs callers supply in one
\* behaviour, in total; once they are supplied the line is only read.
MaxAssign == 2

\* ------------------------------------------------------------------ types

\* The attribute types of the model: char and TextTag are inserted by
\* LLLine::new, Kind is a resolver's custom attribute type.
Types == {"char", "TextTag", "Kind"}

\* The value of the n-th attribute that resolvers and callers supply in a
\* behaviour, by its type. The store never looks into a value: the values
\* of Kind are all different, told apart by n, and those of TextTag and of
\* char are all the same.
SuppliedValue(T, n) ==
    CASE T = "Kind"    -> n
      [] T = "TextTag" -> "WORD"
      [] T = "char"    -> "x"

\* LToken::Text(text, tag)
Text(text, tag) == [kind |-> "Text", text |-> text, tag |-> tag]

\* LToken::Value
Value == [kind |-> "Value", text |-> <<>>, tag |-> "none"]

\* An input token and the number of character positions it covers.
Sized(token, size) == [token |-> token, size |-> size]

\* The position at which input token k + 1 starts: the sizes of the tokens
\* before it.
RECURSIVE PosBefore(_, _)
PosBefore(input, k) ==
    IF k = 0 THEN 0 ELSE PosBefore(input, k - 1) + input[k].size

\* The tokenizer: positioned tokens with consecutive, non-overlapping spans.
CreateTokens(input) ==
    [k \in 1..Len(input) |->
        [token_idx     |-> k - 1,
         pos_starts_at |-> PosBefore(input, k - 1),
         pos_ends_at   |-> PosBefore(input, k),
         token         |-> input[k].token]]

\* The lines of the model.
Lines ==
    { <<>>,
      <<Sized(Value, 2)>>,
      <<Sized(Text(<<"7">>, "NATN"), 1), Sized(Text(<<"!">>, "PUNC"), 1)>>,
      <<Sized(Value, 1), Sized(Text(<<"a", "b">>, "WORD"), 2)>>,
      <<Sized(Text(<<"a">>, "WORD"), 1), Sized(Text(<<",">>, "PUNC"), 1),
        Sized(Text(<<"b">>, "WORD"), 1)>> }

\* ------------------------------------------------- the index primitives

\* TypeIdToMany::default
EmptyTypeIdToMany == [T \in Types |-> <<>>]

\* TypeIdToMany::get
Get(m, T) == m[T]

\* Whether a range is recorded under a type.
Contains(m, T, range) == \E k \in 1..Len(m[T]) : m[T][k] = range

\* TypeIdToMany::insert_distinct
InsertDistinct(m, T, range) ==
    IF Contains(m, T, range) THEN m ELSE [m EXCEPT ![T] = Append(@, range)]

\* TypeIdToMany::insert_any_distinct
InsertAnyDistinct(m, type_id, range) ==
    IF Contains(m, type_id, range) THEN m
    ELSE [m EXCEPT ![type_id] = Append(@, range)]

\* TypeBucket::default
EmptyBucket == [T \in Types |-> <<>>]

\* TypeBucket::insert
BucketInsert(bucket, T, value) == [bucket EXCEPT ![T] = Append(@, value)]

\* TypeBucket::insert_any_attribute
BucketInsertAny(bucket, attr) ==
    [bucket EXCEPT ![attr.type_id] = Append(@, attr.value)]

\* TypeBucket::get
BucketGet(bucket, T) == bucket[T]

\* HashMap::entry(range).or_default()
OrDefault(values, range) ==
    IF range \in DOMAIN values THEN values ELSE values @@ (range :> EmptyBucket)

\* ---------------------------------------------------------- LLLineAttrs

\* The store LLLine::new starts from: one empty slot per token.
InitialAttrs(len) ==
    [ranges    |-> EmptyTypeIdToMany,
     starts_at |-> [k \in 1..len |-> EmptyTypeIdToMany],
     ends_at   |-> [k \in 1..len |-> EmptyTypeIdToMany],
     values    |-> <<>>]

\* A completed insertion and one that panicked, with the store it leaves.
Done(a) == [ok |-> TRUE, attrs |-> a]
Panicked(a) == [ok |-> FALSE, attrs |-> a]

\* Insert as it would be if it put a new bucket in place of the range's.
InsertOverwriting(a, T, range, value) ==
    IF range[1] >= Len(a.starts_at) THEN Panicked(a)
    ELSE
      LET a1 == [a EXCEPT !.starts_at[range[1] + 1] = InsertDistinct(@, T, range)]
      IN  IF range[2] >= Len(a1.ends_at) THEN Panicked(a1)
          ELSE
            LET a2 == [a1 EXCEPT !.ends_at[range[2] + 1] = InsertDistinct(@, T, range)]
                a3 == [a2 EXCEPT !.ranges = InsertDistinct(@, T, range)]
            IN  Done([a3 EXCEPT !.values =
                        (range :> BucketInsert(EmptyBucket, T, value)) @@ a3.values])

\* Insert as it would be if it pushed the range onto ranges without
\* looking for it there.
InsertPushing(a, T, range, value) ==
    IF range[1] >= Len(a.starts_at) THEN Panicked(a)
    ELSE
      LET a1 == [a EXCEPT !.starts_at[range[1] + 1] = InsertDistinct(@, T, range)]
      IN  IF range[2] >= Len(a1.ends_at) THEN Panicked(a1)
          ELSE
            LET a2 == [a1 EXCEPT !.ends_at[range[2] + 1] = InsertDistinct(@, T, range)]
                a3 == [a2 EXCEPT !.ranges[T] = Append(@, range)]
                v  == OrDefault(a3.values, range)
            IN  Done([a3 EXCEPT !.values = [v EXCEPT ![range] = BucketInsert(@, T, value)]])

\* Insert as it would be if it skipped a range whose slot does not exist.
InsertLenient(a, T, range, value) ==
    IF range[1] >= Len(a.starts_at) \/ range[2] >= Len(a.ends_at) THEN Done(a)
    ELSE
      LET a1 == [a EXCEPT !.starts_at[range[1] + 1] = InsertDistinct(@, T, range)]
          a2 == [a1 EXCEPT !.ends_at[range[2] + 1] = InsertDistinct(@, T, range)]
          a3 == [a2 EXCEPT !.ranges = InsertDistinct(@, T, range)]
          v  == OrDefault(a3.values, range)
      IN  Done([a3 EXCEPT !.values = [v EXCEPT ![range] = BucketInsert(@, T, value)]])

\* Insert as it would be if it made the slots an index is missing instead
\* of panicking.
InsertGrowing(a, T, range, value) ==
    LET slots(index, idx) ==
            index \o [k \in 1..(idx + 1 - Len(index)) |-> EmptyTypeIdToMany]
        g  == [a EXCEPT !.starts_at = slots(@, range[1]),
                        !.ends_at = slots(@, range[2])]
        a1 == [g EXCEPT !.starts_at[range[1] + 1] = InsertDistinct(@, T, range)]
        a2 == [a1 EXCEPT !.ends_at[range[2] + 1] = InsertDistinct(@, T, range)]
        a3 == [a2 EXCEPT !.ranges = InsertDistinct(@, T, range)]
        v  == OrDefault(a3.values, range)
    IN  Done([a3 EXCEPT !.values = [v EXCEPT ![range] = BucketInsert(@, T, value)]])

\* LLLineAttrs::insert
Insert(a, T, range, value) ==
    IF range[1] >= Len(a.starts_at) THEN Panicked(a)
    ELSE
      LET a1 == [a EXCEPT !.starts_at[range[1] + 1] = InsertDistinct(@, T, range)]
      IN  IF range[2] >= Len(a1.ends_at) THEN Panicked(a1)
          ELSE
            LET a2 == [a1 EXCEPT !.ends_at[range[2] + 1] = InsertDistinct(@, T, range)]
                a3 == [a2 EXCEPT !.ranges = InsertDistinct(@, T, range)]
                v  == OrDefault(a3.values, range)
            IN  Done([a3 EXCEPT !.values = [v EXCEPT ![range] = BucketInsert(@, T, value)]])

\* InsertAny as it would be if it left a range alone that is recorded
\* under the attribute's type already.
InsertAnyUnlessRecorded(a, range, attr) ==
    IF range[1] >= Len(a.starts_at) THEN Panicked(a)
    ELSE
      LET a1 == [a EXCEPT !.starts_at[range[1] + 1] =
                              InsertAnyDistinct(@, attr.type_id, range)]
      IN  IF range[2] >= Len(a1.ends_at) THEN Panicked(a1)
          ELSE IF Contains(a1.ranges, attr.type_id, range) THEN Done(a1)
          ELSE
            LET a2 == [a1 EXCEPT !.ends_at[range[2] + 1] =
                                    InsertAnyDistinct(@, attr.type_id, range)]
                a3 == [a2 EXCEPT !.ranges = InsertAnyDistinct(@, attr.type_id, range)]
                v  == OrDefault(a3.values, range)
            IN  Done([a3 EXCEPT !.values = [v EXCEPT ![range] = BucketInsertAny(@, attr)]])

\* One turn of the loop of LLLine::add_any_attrs.
InsertAny(a, range, attr) ==
    IF range[1] >= Len(a.starts_at) THEN Panicked(a)
    ELSE
      LET a1 == [a EXCEPT !.starts_at[range[1] + 1] =
                              InsertAnyDistinct(@, attr.type_id, range)]
      IN  IF range[2] >= Len(a1.ends_at) THEN Panicked(a1)
          ELSE
            LET a2 == [a1 EXCEPT !.ends_at[range[2] + 1] =
                                    InsertAnyDistinct(@, attr.type_id, range)]
                a3 == [a2 EXCEPT !.ranges = InsertAnyDistinct(@, attr.type_id, range)]
                v  == OrDefault(a3.values, range)
            IN  Done([a3 EXCEPT !.values = [v EXCEPT ![range] = BucketInsertAny(@, attr)]])

\* LLLine::add_any_attrs: the loop over the attributes, stopped by a panic.
RECURSIVE AddAnyAttrs(_, _, _, _)
AddAnyAttrs(a, start_idx, end_idx, list) ==
    IF list = <<>> THEN Done(a)
    ELSE LET r == InsertAny(a, <<start_idx, end_idx>>, Head(list))
         IN  IF r.ok THEN AddAnyAttrs(r.attrs, start_idx, end_idx, Tail(list))
             ELSE r

\* AutoAnnotate as it would be if the tag were inserted only when the
\* character is not.
AutoAnnotateEither(a, ll_token) ==
    LET i == ll_token.token_idx IN
    IF ll_token.token.kind = "Text"
    THEN IF Len(ll_token.token.text) = 1
         THEN Insert(a, "char", <<i, i>>, ll_token.token.text[1]).attrs
         ELSE Insert(a, "TextTag", <<i, i>>, ll_token.token.tag).attrs
    ELSE a

\* The body of the loop of LLLine::new for one token.
AutoAnnotate(a, ll_token) ==
    LET i == ll_token.token_idx IN
    IF ll_token.token.kind = "Text"
    THEN LET a1 == IF Len(ll_token.token.text) = 1
                   THEN Insert(a, "char", <<i, i>>, ll_token.token.text[1]).attrs
                   ELSE a
         IN  Insert(a1, "TextTag", <<i, i>>, ll_token.token.tag).attrs
    ELSE a

\* The loop of LLLine::new over the first n tokens.
RECURSIVE AnnotateTokens(_, _, _)
AnnotateTokens(a, tokens, n) ==
    IF n = 0 THEN a
    ELSE AutoAnnotate(AnnotateTokens(a, tokens, n - 1), tokens[n])

\* LLLine::new
New(tokens) ==
    [ll_tokens |-> tokens,
     attrs     |-> AnnotateTokens(InitialAttrs(Len(tokens)), tokens, Len(tokens))]

\* ------------------------------------------------------- query and find

\* A result that was returned, and the panic of a read operation.
Returned(res) == [ok |-> TRUE, res |-> res]
ReadPanicked == [ok |-> FALSE, res |-> <<>>]

\* The text a token contributes to a queried range.
TokenText(ll_token) ==
    IF ll_token.token.kind = "Text" THEN ll_token.token.text ELSE <<>>

\* Whether the slice ll_tokens[s..=e] exists: its exclusive end e + 1 is
\* within the line and not before its start.
SliceInBounds(tokens, s, e) == e + 1 <= Len(tokens) /\ s <= e + 1

\* String::from_iter over the tokens s..=e.
RECURSIVE CollectText(_, _, _)
CollectText(tokens, s, e) ==
    IF s > e THEN <<>>
    ELSE TokenText(tokens[s + 1]) \o CollectText(tokens, s + 1, e)

\* The entry LLLine::query makes for one range.
QueryEntry(tokens, a, T, range) ==
    [range  |-> range,
     text   |-> CollectText(tokens, range[1], range[2]),
     values |-> BucketGet(a.values[range], T)]

\* Query as it would be if a type without a recorded range were an error.
QueryOrError(tokens, a, T) ==
    LET found == Get(a.ranges, T) IN
    IF \/ found = <<>>
       \/ \E k \in 1..Len(found) :
             \/ ~SliceInBounds(tokens, found[k][1], found[k][2])
             \/ found[k] \notin DOMAIN a.values
    THEN ReadPanicked
    ELSE Returned([k \in 1..Len(found) |-> QueryEntry(tokens, a, T, found[k])])

\* LLLine::query
Query(tokens, a, T) ==
    LET found == Get(a.ranges, T) IN
    IF \E k \in 1..Len(found) :
          \/ ~SliceInBounds(tokens, found[k][1], found[k][2])
          \/ found[k] \notin DOMAIN a.values
    THEN ReadPanicked
    ELSE Returned([k \in 1..Len(found) |-> QueryEntry(tokens, a, T, found[k])])

\* Concatenation of a sequence of sequences.
RECURSIVE Flatten(_)
Flatten(ss) == IF ss = <<>> THEN <<>> ELSE Head(ss) \o Flatten(Tail(ss))

\* The matchers of the model: one that yields every attribute of a type
\* that starts at the cursor, one that yields those equal to a value, and
\* one that never matches.
Attr(T) == [kind |-> "attr", type |-> T, value |-> "any"]
AttrEq(T, v) == [kind |-> "attr_eq", type |-> T, value |-> v]
Never == [kind |-> "never", type |-> "char", value |-> "any"]
Matchers == {Attr("Kind"), Attr("char"), AttrEq("TextTag", "PUNC"), Never}

\* The pairs a matcher yields for one range that starts at the cursor.
MatchRange(matcher, a, range) ==
    LET vs == BucketGet(a.values[range], matcher.type) IN
    [j \in 1..Len(vs) |-> [out |-> vs[j], next_idx |-> range[2]]]

\* XMatch::go with a forward cursor at from_idx: the (out, next_idx) pairs.
MatcherGo(matcher, from_idx, a) ==
    IF matcher.kind = "never" THEN <<>>
    ELSE LET here == Get(a.starts_at[from_idx + 1], matcher.type)
             all  == Flatten([k \in 1..Len(here) |-> MatchRange(matcher, a, here[k])])
         IN  IF matcher.kind = "attr" THEN all
             ELSE SelectSeq(all, LAMBDA y : y.out = matcher.value)

\* LLLine::pos_start_at and LLLine::pos_end_at, where they do not panic.
PosInBounds(tokens, idx) == idx < Len(tokens)
pos_start_at(tokens, idx) == tokens[idx + 1].pos_starts_at
pos_end_at(tokens, idx) == tokens[idx + 1].pos_ends_at

\* FindAt as it would be if a match ended where the cursor's token ends.
FindAtOwnEnd(tokens, i, yielded) ==
    [j \in 1..Len(yielded) |->
        [start_pos_at |-> pos_start_at(tokens, i),
         end_pos_at   |-> pos_end_at(tokens, i),
         found        |-> yielded[j].out]]

\* The LLLineFind values find makes of what the matcher yields at i.
FindAt(tokens, i, yielded) ==
    [j \in 1..Len(yielded) |->
        [start_pos_at |-> pos_start_at(tokens, i),
         end_pos_at   |-> pos_end_at(tokens, yielded[j].next_idx),
         found        |-> yielded[j].out]]

\* LLLine::find from token index i on: the indexes the matcher is invoked
\* with, in order, and the results collected; a panic ends the iteration.
RECURSIVE FindFrom(_, _, _, _)
FindFrom(tokens, a, matcher, i) ==
    IF i >= Len(tokens) THEN [ok |-> TRUE, calls |-> <<>>, res |-> <<>>]
    ELSE LET yielded == MatcherGo(matcher, i, a) IN
         IF \E j \in 1..Len(yielded) : ~PosInBounds(tokens, yielded[j].next_idx)
         THEN [ok |-> FALSE, calls |-> <<i>>, res |-> <<>>]
         ELSE LET rest == FindFrom(tokens, a, matcher, i + 1) IN
              [ok    |-> rest.ok,
               calls |-> <<i>> \o rest.calls,
               res   |-> IF rest.ok THEN FindAt(tokens, i, yielded) \o rest.res
                         ELSE <<>>]

\* LLLine::find
Find(tokens, a, matcher) == FindFrom(tokens, a, matcher, 0)

\* ------------------------------------------------------------- the state

VARIABLES
    ll_tokens,    \* LLLine::ll_tokens
    attrs,        \* LLLine::attrs
    pc,           \* "Owned" between calls; inside run "Shared", "GoReturned",
                  \* "Reclaimed", "Merged", or "Skipped" for an empty line;
                  \* "Added" at the end of add_any_attrs; "Read" at the end of
                  \* query and find; "Aborted" after a panic
    rc,           \* the strong count of the Rc made by run; 0 without one
    selection,    \* the LLSelection handed to go, as a sequence of at most one;
                  \* its ll_line names the Rc it holds a clone of
    attr_type,    \* Resolver::Attr of the resolver of the run in progress
    assignments,  \* the Vec<LLCursorAssignment> of the resolver, not yet merged
    go_calls,     \* how often the call in progress has called Resolver::go
    used,         \* the attributes supplied so far
    pre,          \* attrs when the call in progress was made
    applied,      \* the assignments the run in progress has inserted
    call,         \* the call in progress, with its arguments and, for run,
                  \* the list go returned
    out           \* what the query or find in progress returns, or the
                  \* handles the resolver last passed to assert_ll_lines_equals

vars == <<ll_tokens, attrs, pc, rc, selection, attr_type, assignments,
          go_calls, used, pre, applied, call, out>>

NoCall == [op |-> "none"]
NoOut == [op |-> "none"]

\* The token indexes a resolver or a caller names: those of the line and
\* the first one out of bounds.
Indexes == 0..Len(ll_tokens)

\* LLCursorAssignment
LLCursorAssignment(s, e, v) == [start_idx |-> s, end_idx |-> e, value |-> v]

\* AnyAttribute
AnyAttribute(T, v) == [type_id |-> T, value |-> v]

\* The Vec<AnyAttribute> of a caller who supplies attributes of the given
\* types next.
AnyAttributes(types) ==
    [k \in 1..Len(types) |-> AnyAttribute(types[k], SuppliedValue(types[k], used + k))]

\* The sequences over S of length at most n.
SeqsUpTo(S, n) == UNION {[1..k -> S] : k \in 0..n}

Init ==
    \E input \in Lines :
        LET line == New(CreateTokens(input)) IN
        /\ ll_tokens = line.ll_tokens
        /\ attrs = line.attrs
        /\ pc = "Owned"
        /\ rc = 0
        /\ selection = <<>>
        /\ attr_type = "none"
        /\ assignments = <<>>
        /\ go_calls = 0
        /\ used = 0
        /\ pre = line.attrs
        /\ applied = <<>>
        /\ call = NoCall
        /\ out = NoOut

\* RunCall as it would be without the check for an empty line.
RunCallAlways(T) ==
    /\ pc = "Owned"
    /\ used < MaxAssign
    /\ call' = [op |-> "run", attr_type |-> T, produced |-> <<>>]
    /\ pc' = "Shared"
    /\ rc' = 2
    /\ selection' = <<[ll_line |-> "ll_line", start_idx |-> 0,
                               end_idx |-> Len(ll_tokens) - 1]>>
    /\ attr_type' = T
    /\ go_calls' = go_calls + 1
    /\ UNCHANGED <<ll_tokens, attrs, assignments, used, pre, applied, out>>

\* RunCall as it would be if the selection held a handle of a copy of the
\* line and spanned one index more.
RunCallOfCopy(T) ==
    /\ pc = "Owned"
    /\ used < MaxAssign
    /\ call' = [op |-> "run", attr_type |-> T, produced |-> <<>>]
    /\ IF ll_tokens = <<>>
       THEN /\ pc' = "Skipped"
            /\ UNCHANGED <<rc, selection, attr_type, go_calls>>
       ELSE /\ pc' = "Shared"
            /\ rc' = 2
            /\ selection' = <<[ll_line |-> "twin", start_idx |-> 0,
                               end_idx |-> Len(ll_tokens)]>>
            /\ attr_type' = T
            /\ go_calls' = go_calls + 1
    /\ UNCHANGED <<ll_tokens, attrs, assignments, used, pre, applied, out>>

\* LLLine::run up to the call of Resolver::go: an empty line is returned
\* as it is; otherwise the line moves into an Rc, whose clone the
\* selection holds.
RunCall(T) ==
    /\ pc = "Owned"
    /\ used < MaxAssign
    /\ call' = [op |-> "run", attr_type |-> T, produced |-> <<>>]
    /\ IF ll_tokens = <<>>
       THEN /\ pc' = "Skipped"
            /\ UNCHANGED <<rc, selection, attr_type, go_calls>>
       ELSE /\ pc' = "Shared"
            /\ rc' = 2
            /\ selection' = <<[ll_line |-> "ll_line", start_idx |-> 0,
                               end_idx |-> Len(ll_tokens) - 1]>>
            /\ attr_type' = T
            /\ go_calls' = go_calls + 1
    /\ UNCHANGED <<ll_tokens, attrs, assignments, used, pre, applied, out>>

\* Inside go: the resolver adds an assignment to the list it will return.
ResolverAssign(s, e) ==
    /\ pc = "Shared"
    /\ used < MaxAssign
    /\ assignments' = Append(assignments,
            LLCursorAssignment(s, e, SuppliedValue(attr_type, used + 1)))
    /\ used' = used + 1
    /\ UNCHANGED <<ll_tokens, attrs, pc, rc, selection, attr_type, go_calls,
                   pre, applied, call, out>>

\* go returns its list; the selection it was given is dropped, unless the
\* resolver has kept it or a clone of its handle.
GoReturn(kept) ==
    /\ pc = "Shared"
    /\ pc' = "GoReturned"
    /\ rc' = IF kept THEN rc ELSE rc - 1
    /\ selection' = <<>>
    /\ call' = [call EXCEPT !.produced = assignments]
    /\ out' = NoOut
    /\ UNCHANGED <<ll_tokens, attrs, attr_type, assignments, go_calls, used,
                   pre, applied>>

\* Reclaim as it would be if it took the line out of the Rc whenever at
\* most one other handle is left.
ReclaimCounting ==
    /\ pc = "GoReturned"
    /\ IF rc <= 2
       THEN pc' = "Reclaimed" /\ rc' = rc - 1
       ELSE pc' = "Aborted" /\ rc' = rc
    /\ UNCHANGED <<ll_tokens, attrs, selection, attr_type, assignments,
                   go_calls, used, pre, applied, call, out>>

\* The Rc<LLLine> handles a resolver can hold: "ll_line", the Rc run made
\* of the line being resolved (the selection holds a clone of it); "twin",
\* an Rc of another line with the same tokens and attributes; "other", an
\* Rc of a line without tokens.
Ptrs == {"ll_line", "twin", "other"}
Handle(ptr) ==
    [ptr  |-> ptr,
     line |-> IF ptr = "other" THEN New(<<>>)
              ELSE [ll_tokens |-> ll_tokens, attrs |-> attrs]]

\* Rc::ptr_eq: whether two handles point to the same allocation.
RcPtrEq(first, second) == first.ptr = second.ptr

\* assert_ll_lines_equals as it would be if it compared the lines.
assert_ll_lines_equals_by_value(first, second) == first.line = second.line

\* assert_ll_lines_equals: TRUE where it returns, FALSE where it panics.
assert_ll_lines_equals(first, second) == RcPtrEq(first, second)

\* Inside go: the resolver combines or compares two selections, which
\* checks the lines of their handles; a panic unwinds go, whose list is
\* never returned.
AssertLLLinesEqualsCall(first, second) ==
    /\ pc = "Shared"
    /\ out' = [op |-> "assert_ll_lines_equals", first |-> first.ptr,
                second |-> second.ptr]
    /\ IF assert_ll_lines_equals(first, second)
       THEN UNCHANGED <<pc, assignments>>
       ELSE pc' = "Aborted" /\ assignments' = <<>>
    /\ UNCHANGED <<ll_tokens, attrs, rc, selection, attr_type, go_calls, used,
                   pre, applied, call>>

\* Rc::try_unwrap(ll_line).expect(..): the line is taken back if the
\* engine's handle is the only one, and run panics otherwise.
Reclaim ==
    /\ pc = "GoReturned"
    /\ IF rc = 1
       THEN pc' = "Reclaimed" /\ rc' = 0
       ELSE pc' = "Aborted" /\ rc' = rc
    /\ UNCHANGED <<ll_tokens, attrs, selection, attr_type, assignments,
                   go_calls, used, pre, applied, call, out>>

\* Merge as it would be if the loop ran before the line is reclaimed.
MergeEarly ==
    /\ pc \in {"GoReturned", "Reclaimed"}
    /\ assignments # <<>>
    /\ LET next == Head(assignments)
           r    == Insert(attrs, attr_type, <<next.start_idx, next.end_idx>>, next.value)
       IN  /\ attrs' = r.attrs
           /\ IF r.ok
              THEN /\ assignments' = Tail(assignments)
                   /\ applied' = Append(applied, next)
                   /\ pc' = "Reclaimed"
              ELSE /\ pc' = "Aborted"
                   /\ UNCHANGED <<assignments, applied>>
    /\ UNCHANGED <<ll_tokens, rc, selection, attr_type, go_calls, used, pre,
                   call, out>>

\* Merge as it would be if it inserted every value as a TextTag.
MergeAsTextTag ==
    /\ pc = "Reclaimed"
    /\ assignments # <<>>
    /\ LET next == Head(assignments)
           r    == Insert(attrs, "TextTag", <<next.start_idx, next.end_idx>>, next.value)
       IN  /\ attrs' = r.attrs
           /\ IF r.ok
              THEN /\ assignments' = Tail(assignments)
                   /\ applied' = Append(applied, next)
                   /\ pc' = "Reclaimed"
              ELSE /\ pc' = "Aborted"
                   /\ UNCHANGED <<assignments, applied>>
    /\ UNCHANGED <<ll_tokens, rc, selection, attr_type, go_calls, used, pre,
                   call, out>>

\* One turn of the loop of run over the assignments.
Merge ==
    /\ pc = "Reclaimed"
    /\ assignments # <<>>
    /\ LET next == Head(assignments)
           r    == Insert(attrs, attr_type, <<next.start_idx, next.end_idx>>, next.value)
       IN  /\ attrs' = r.attrs
           /\ IF r.ok
              THEN /\ assignments' = Tail(assignments)
                   /\ applied' = Append(applied, next)
                   /\ pc' = "Reclaimed"
              ELSE /\ pc' = "Aborted"
                   /\ UNCHANGED <<assignments, applied>>
    /\ UNCHANGED <<ll_tokens, rc, selection, attr_type, go_calls, used, pre,
                   call, out>>

\* The loop of run ends.
MergeEnd ==
    /\ pc = "Reclaimed"
    /\ assignments = <<>>
    /\ pc' = "Merged"
    /\ UNCHANGED <<ll_tokens, attrs, rc, selection, attr_type, assignments,
                   go_calls, used, pre, applied, call, out>>

\* LLLine::add_any_attrs
AddAnyAttrsCall(start_idx, end_idx, list) ==
    /\ pc = "Owned"
    /\ used < MaxAssign
    /\ LET r == AddAnyAttrs(attrs, start_idx, end_idx, list) IN
           /\ attrs' = r.attrs
           /\ pc' = IF r.ok THEN "Added" ELSE "Aborted"
    /\ used' = used + Len(list)
    /\ call' = [op |-> "add_any_attrs", start_idx |-> start_idx,
                end_idx |-> end_idx, attrs |-> list]
    /\ UNCHANGED <<ll_tokens, rc, selection, attr_type, assignments, go_calls,
                   pre, applied, out>>

\* LLLine::query::<T>()
QueryCall(T) ==
    /\ pc = "Owned"
    /\ LET q == Query(ll_tokens, attrs, T) IN
           /\ out' = [op |-> "query", ok |-> q.ok, res |-> q.res]
           /\ pc' = IF q.ok THEN "Read" ELSE "Aborted"
    /\ call' = [op |-> "query", type |-> T]
    /\ UNCHANGED <<ll_tokens, attrs, rc, selection, attr_type, assignments,
                   go_calls, used, pre, applied>>

\* LLLine::find(matcher)
FindCall(matcher) ==
    /\ pc = "Owned"
    /\ LET f == Find(ll_tokens, attrs, matcher) IN
           /\ out' = [op |-> "find", ok |-> f.ok, calls |-> f.calls, res |-> f.res]
           /\ pc' = IF f.ok THEN "Read" ELSE "Aborted"
    /\ call' = [op |-> "find", matcher |-> matcher]
    /\ UNCHANGED <<ll_tokens, attrs, rc, selection, attr_type, assignments,
                   go_calls, used, pre, applied>>

\* The call in progress returns to the caller, who owns the line again.
Return ==
    /\ pc \in {"Merged", "Skipped", "Added", "Read"}
    /\ pc' = "Owned"
    /\ attr_type' = "none"
    /\ go_calls' = 0
    /\ pre' = attrs
    /\ applied' = <<>>
    /\ call' = NoCall
    /\ out' = NoOut
    /\ UNCHANGED <<ll_tokens, attrs, rc, selection, assignments, used>>

Next ==
    \/ \E T \in {"Kind", "TextTag"} : RunCall(T)
    \/ \E s \in Indexes, e \in Indexes : ResolverAssign(s, e)
    \/ \E first \in Ptrs, second \in Ptrs :
          AssertLLLinesEqualsCall(Handle(first), Handle(second))
    \/ \E kept \in BOOLEAN : GoReturn(kept)
    \/ Reclaim
    \/ Merge
    \/ MergeEnd
    \/ \E s \in Indexes, e \in Indexes, types \in SeqsUpTo(Types, MaxAssign - used) :
          AddAnyAttrsCall(s, e, AnyAttributes(types))
    \/ \E T \in Types : QueryCall(T)
    \/ \E matcher \in Matchers : FindCall(matcher)
    \/ Return

Spec == Init /\ [][Next]_vars

\* ----------------------------------------------------------- the claims

\* The ranges over the token indexes of the line and the first index out
\* of bounds.
AllRanges == Indexes \X Indexes

\* Whether (T, range) is recorded in the slot of a per-token index that
\* the index gives to token index idx.
InSlot(index, idx, T, range) ==
    idx < Len(index) /\ Contains(index[idx + 1], T, range)

\* Whether the bucket of a range holds a value of type T.
HasValue(a, T, range) ==
    range \in DOMAIN a.values /\ BucketGet(a.values[range], T) # <<>>

\* Every entry of a per-token index is in the slot of its own token index
\* (the start for starts_at when which = 1, the end for ends_at when 2).
OwnSlots(index, which) ==
    \A k \in 1..Len(index) : \A T \in Types : \A j \in 1..Len(index[k][T]) :
        index[k][T][j][which] = k - 1

\* Every range recorded under a type in the index m satisfies P.
AllRecorded(m, P(_, _)) ==
    \A T \in Types : \A k \in 1..Len(m[T]) : P(T, m[T][k])

\* C1: in every reachable state, for every type T and range r, r is
\* recorded under T in ranges iff it is in starts_at[r.start] iff it is in
\* ends_at[r.end] iff values[r] holds a value of type T; no index entry and
\* no value is orphaned.
C1_Consistency ==
    /\ AllRecorded(attrs.ranges,
          LAMBDA T, range : /\ InSlot(attrs.starts_at, range[1], T, range)
                            /\ InSlot(attrs.ends_at, range[2], T, range)
                            /\ HasValue(attrs, T, range))
    /\ \A k \in 1..Len(attrs.starts_at) :
          AllRecorded(attrs.starts_at[k],
              LAMBDA T, range : Contains(attrs.ranges, T, range))
    /\ \A k \in 1..Len(attrs.ends_at) :
          AllRecorded(attrs.ends_at[k],
              LAMBDA T, range : Contains(attrs.ranges, T, range))
    /\ \A range \in DOMAIN attrs.values : \A T \in Types :
          HasValue(attrs, T, range) => Contains(attrs.ranges, T, range)
    /\ OwnSlots(attrs.starts_at, 1)
    /\ OwnSlots(attrs.ends_at, 2)

\* The values of the assignments of a list that are on a range, in the
\* order of the list.
RECURSIVE ValuesOn(_, _)
ValuesOn(list, range) ==
    IF list = <<>> THEN <<>>
    ELSE (IF <<Head(list).start_idx, Head(list).end_idx>> = range
          THEN <<Head(list).value>> ELSE <<>>) \o ValuesOn(Tail(list), range)

\* The values a query result carries for a range: those of its entries for
\* that range, in the order of the result.
RECURSIVE EntryValues(_, _)
EntryValues(res, range) ==
    IF res = <<>> THEN <<>>
    ELSE (IF Head(res).range = range THEN Head(res).values ELSE <<>>)
         \o EntryValues(Tail(res), range)

\* The values of type T in the bucket of a range, none without a bucket.
Stored(a, T, range) ==
    IF range \in DOMAIN a.values THEN BucketGet(a.values[range], T) ELSE <<>>

\* Whether both indexes of an assignment are token indexes of the line.
InBounds(assignment) ==
    assignment.start_idx < Len(ll_tokens) /\ assignment.end_idx < Len(ll_tokens)

\* C2: when run has merged the list a_1..a_n the resolver returned, for
\* every range r the values of the resolver's type that query returns for r
\* are those it returned for r before run followed by the values of the
\* assignments on r in production order, nothing earlier being overwritten
\* or dropped; one assignment of a new type yields exactly one query entry,
\* for its range.
C2_MergeAccumulates ==
    pc = "Merged" =>
        LET before == Query(ll_tokens, pre, attr_type)
            after  == Query(ll_tokens, attrs, attr_type)
        IN  /\ applied = call.produced
            /\ \A range \in AllRanges :
                  Stored(attrs, attr_type, range)
                    = Stored(pre, attr_type, range) \o ValuesOn(call.produced, range)
            /\ (before.ok /\ after.ok) =>
                  \A range \in AllRanges :
                      EntryValues(after.res, range)
                        = EntryValues(before.res, range)
                            \o ValuesOn(call.produced, range)
            /\ (after.ok /\ Len(call.produced) = 1 /\ Get(pre.ranges, attr_type) = <<>>) =>
                  /\ Len(after.res) = 1
                  /\ after.res[1].range
                       = <<call.produced[1].start_idx, call.produced[1].end_idx>>
                  /\ after.res[1].values = <<call.produced[1].value>>

\* C2's case: a run has merged two assignments on one range that carried a
\* value of the resolver's type before.
C2_Witness ==
    /\ pc = "Merged"
    /\ Len(call.produced) = 2
    /\ call.produced[1].start_idx = call.produced[2].start_idx
    /\ call.produced[1].end_idx = call.produced[2].end_idx
    /\ HasValue(pre, attr_type, <<call.produced[1].start_idx, call.produced[1].end_idx>>)
    /\ Query(ll_tokens, attrs, attr_type).ok

\* Whether value v of type T is an attribute on a range: the range is in
\* the three range indexes under T and v is in its bucket.
IsAttr(a, T, range, v) ==
    /\ Contains(a.ranges, T, range)
    /\ InSlot(a.starts_at, range[1], T, range)
    /\ InSlot(a.ends_at, range[2], T, range)
    /\ \E j \in 1..Len(Stored(a, T, range)) : Stored(a, T, range)[j] = v

\* Whether any of the four indexes has something of type T for a range.
Touches(a, T, range) ==
    \/ Contains(a.ranges, T, range)
    \/ \E k \in 1..Len(a.starts_at) : Contains(a.starts_at[k], T, range)
    \/ \E k \in 1..Len(a.ends_at) : Contains(a.ends_at[k], T, range)
    \/ range \in DOMAIN a.values

\* C3: after LLLine::new and before any attribute is supplied, every text
\* token's tag is an attribute on (i,i), the character of a one-character
\* text token is one too, a value token's (i,i) carries no attribute, and
\* no other range carries any.
C3_AutoAnnotation ==
    used = 0 =>
        /\ \A i \in 0..(Len(ll_tokens) - 1) :
              LET token == ll_tokens[i + 1].token IN
              IF token.kind = "Text"
              THEN /\ IsAttr(attrs, "TextTag", <<i, i>>, token.tag)
                   /\ Len(token.text) = 1 => IsAttr(attrs, "char", <<i, i>>, token.text[1])
              ELSE \A T \in Types : ~Touches(attrs, T, <<i, i>>)
        /\ \A T \in Types : \A range \in AllRanges :
              Touches(attrs, T, range) =>
                  /\ range[1] = range[2]
                  /\ range[1] < Len(ll_tokens)
                  /\ ll_tokens[range[1] + 1].token.kind = "Text"

\* C3's case: a new line with a one-character text token, a longer text
\* token or a value token, and a second token.
C3_Witness ==
    /\ used = 0
    /\ pc = "Owned"
    /\ Len(ll_tokens) >= 2
    /\ \E i \in 1..Len(ll_tokens) : ll_tokens[i].token.kind = "Value"
    /\ \E i \in 1..Len(ll_tokens) : Len(ll_tokens[i].token.text) = 2

\* How often a range occurs in a sequence of ranges.
RECURSIVE Occurrences(_, _)
Occurrences(ranges, range) ==
    IF ranges = <<>> THEN 0
    ELSE (IF Head(ranges) = range THEN 1 ELSE 0) + Occurrences(Tail(ranges), range)

\* No range occurs twice under a type in an index.
Distinct(m) ==
    \A T \in Types : \A i \in 1..Len(m[T]) : \A j \in 1..Len(m[T]) :
        m[T][i] = m[T][j] => i = j

\* C4: no (type, range) pair occurs more than once in ranges, in a slot of
\* starts_at or in a slot of ends_at; and the insertions of a run on a
\* range that already was indexed under the resolver's type leave the
\* range's entry in each index as it was, while its bucket grows by one
\* value per insertion.
C4_DistinctIndexEntries ==
    /\ Distinct(attrs.ranges)
    /\ \A k \in 1..Len(attrs.starts_at) : Distinct(attrs.starts_at[k])
    /\ \A k \in 1..Len(attrs.ends_at) : Distinct(attrs.ends_at[k])
    /\ pc \in {"Reclaimed", "Merged"} =>
          \A k \in 1..Len(applied) :
              LET range == <<applied[k].start_idx, applied[k].end_idx>> IN
              Contains(pre.ranges, attr_type, range) =>
                  /\ Occurrences(attrs.ranges[attr_type], range) = 1
                  /\ Occurrences(attrs.starts_at[range[1] + 1][attr_type], range) = 1
                  /\ Occurrences(attrs.ends_at[range[2] + 1][attr_type], range) = 1
                  /\ Len(Stored(attrs, attr_type, range))
                       = Len(Stored(pre, attr_type, range))
                           + Len(ValuesOn(applied, range))

\* C4's case: a run has inserted an attribute on a range that was indexed
\* under the resolver's type before the run.
C4_Witness ==
    /\ pc = "Merged"
    /\ \E k \in 1..Len(applied) :
          Contains(pre.ranges, attr_type, <<applied[k].start_idx, applied[k].end_idx>>)

\* C5: past the reclaim step of run a handle to the shared line is alive
\* only if run has panicked there: nothing was merged, and the line is not
\* returned.
C5_LeakAborts ==
    /\ (pc \notin {"Shared", "GoReturned"} /\ rc >= 1) =>
          /\ pc = "Aborted"
          /\ attrs = pre
          /\ applied = <<>>
          /\ assignments = call.produced
    /\ (pc = "GoReturned" /\ rc > 1) => (attrs = pre /\ applied = <<>>)

\* C5's case: the resolver kept a handle and returned assignments, and run
\* panicked at the reclaim step.
C5_Witness ==
    /\ pc = "Aborted"
    /\ rc = 2
    /\ call.op = "run"
    /\ assignments # <<>>

\* C6: the phases of run follow one another as Owned, Shared, (go
\* returned,) Reclaimed, Merged, Owned; the store does not change between
\* the creation of the shared handle and the reclaim; an assignment is
\* inserted only after the reclaim, when no handle is left; and the line is
\* shared only from the owned state, by one invocation of go.
C6_PhaseOrder ==
    [][ /\ pc \in {"Shared", "GoReturned"} => attrs' = attrs /\ applied' = applied
        /\ Len(applied') > Len(applied) => pc = "Reclaimed" /\ rc = 0
        /\ attrs' # attrs => (pc = "Reclaimed" /\ rc = 0) \/ pc = "Owned"
        /\ pc = "Shared" => pc' \in {"Shared", "GoReturned", "Aborted"}
        /\ pc = "GoReturned" => pc' \in {"Reclaimed", "Aborted"}
        /\ pc = "Reclaimed" => pc' \in {"Reclaimed", "Merged", "Aborted"}
        /\ pc = "Merged" => pc' = "Owned"
        /\ pc' = "Shared" => pc \in {"Owned", "Shared"}
        /\ pc' = "GoReturned" => pc = "Shared"
        /\ pc' = "Reclaimed" => pc \in {"GoReturned", "Reclaimed"}
        /\ pc' = "Merged" => pc = "Reclaimed"
        /\ (pc = "Owned" /\ pc' = "Shared") =>
              rc = 0 /\ go_calls = 0 /\ go_calls' = 1 /\ rc' = 2
        /\ pc = "Shared" => go_calls = 1 /\ go_calls' = 1
      ]_vars

\* C6's case: a run went through its phases and merged two assignments.
C6_Witness ==
    /\ pc = "Merged"
    /\ Len(applied) = 2
    /\ attrs # pre

\* C7: run on a line without tokens returns the line as it is, with no
\* token and no attribute, and neither invokes the resolver nor creates a
\* selection or a shared handle.
C7_EmptyLineUnchanged ==
    /\ pc = "Skipped" =>
          /\ ll_tokens = <<>>
          /\ call.op = "run"
          /\ attrs = pre
          /\ attrs = InitialAttrs(0)
          /\ go_calls = 0
          /\ selection = <<>>
          /\ rc = 0
          /\ assignments = <<>>
    /\ ll_tokens = <<>> =>
          /\ pc \notin {"Shared", "GoReturned", "Reclaimed", "Merged"}
          /\ go_calls = 0
          /\ selection = <<>>
          /\ rc = 0

\* C7's case: run was called on the empty line and is about to return it.
C7_Witness == pc = "Skipped" /\ ll_tokens = <<>> /\ call.op = "run"

\* The texts of the tokens start..end of the line, one after the other.
TextOfTokens(range) ==
    Flatten([j \in 1..(range[2] - range[1] + 1) |-> TokenText(ll_tokens[range[1] + j])])

\* C8: in every reachable state query<T>() returns one entry per range
\* recorded under T in ranges, in the order of that index, each with the
\* range, the texts of its tokens one after the other (nothing for a value
\* token) and all values of type T of the range's bucket, in order.
C8_QueryReturns ==
    call.op = "query" =>
        LET recorded == Get(attrs.ranges, call.type) IN
        /\ out.ok
        /\ Len(out.res) = Len(recorded)
        /\ Distinct(attrs.ranges)
        /\ \A k \in 1..Len(out.res) :
              /\ out.res[k].range = recorded[k]
              /\ out.res[k].text = TextOfTokens(recorded[k])
              /\ out.res[k].values = Stored(attrs, call.type, recorded[k])

\* The results C9 describes for a matcher: for every token index in
\* ascending order, one per pair the matcher yields there, in yield order.
ExpectedFind(matcher) ==
    Flatten([k \in 1..Len(ll_tokens) |->
        LET yielded == MatcherGo(matcher, k - 1, attrs) IN
        [j \in 1..Len(yielded) |->
            [start_pos_at |-> ll_tokens[k].pos_starts_at,
             end_pos_at   |-> ll_tokens[yielded[j].next_idx + 1].pos_ends_at,
             found        |-> yielded[j].out]]])

\* The one-character punctuation tokens of the line, in order.
PunctuationTokens ==
    SelectSeq(ll_tokens,
        LAMBDA t : t.token.kind = "Text" /\ t.token.tag = "PUNC" /\ Len(t.token.text) = 1)

\* C9: find invokes the matcher once for every token index from 0 to
\* len - 1 in ascending order and returns one result for every pair the
\* matcher yields, in that order, from the start position of the cursor's
\* token to the end position of the token at next_idx; a matcher that
\* yields at the one-character punctuation tokens returns one match per
\* such token, over its character positions.
C9_FindResults ==
    call.op = "find" =>
        /\ out.ok
        /\ out.calls = [k \in 1..Len(ll_tokens) |-> k - 1]
        /\ out.res = ExpectedFind(call.matcher)
        /\ call.matcher = AttrEq("TextTag", "PUNC") =>
              out.res = [k \in 1..Len(PunctuationTokens) |->
                            [start_pos_at |-> PunctuationTokens[k].pos_starts_at,
                             end_pos_at   |-> PunctuationTokens[k].pos_ends_at,
                             found        |-> "PUNC"]]

\* C9's case: find has returned two matches that start at one token and
\* end at different ones, after a match at an earlier token.
C9_Witness ==
    /\ pc = "Read"
    /\ call.op = "find"
    /\ \E i \in 1..Len(out.res) : \E j \in 1..Len(out.res) :
          /\ out.res[i].start_pos_at = out.res[j].start_pos_at
          /\ out.res[i].end_pos_at < out.res[j].end_pos_at

\* C10: run panics at the first assignment of the resolver's list with an
\* index that is no token index of the line: the list is merged to the
\* end, and the line returned, only if every assignment is in bounds, and
\* a panic of the loop leaves the assignment it met first in the list, the
\* earlier ones merged, and no out-of-bounds range in ranges or values.
C10_OutOfBoundsAborts ==
    /\ pc \in {"Reclaimed", "Merged"} =>
          /\ \A k \in 1..Len(applied) : InBounds(applied[k])
          /\ applied \o assignments = call.produced
    /\ pc = "Merged" =>
          /\ assignments = <<>>
          /\ \A k \in 1..Len(call.produced) : InBounds(call.produced[k])
    /\ (pc = "Aborted" /\ call.op = "run" /\ rc = 0) =>
          /\ assignments # <<>>
          /\ ~InBounds(Head(assignments))
          /\ applied \o assignments = call.produced
          /\ \A k \in 1..Len(applied) : InBounds(applied[k])
          /\ AllRecorded(attrs.ranges,
                LAMBDA T, range : range[1] < Len(ll_tokens) /\ range[2] < Len(ll_tokens))
          /\ \A range \in DOMAIN attrs.values :
                range[1] < Len(ll_tokens) /\ range[2] < Len(ll_tokens)

\* C10's case: run merged an assignment and panicked at the next one, whose
\* start is in bounds and whose end is not.
C10_Witness ==
    /\ pc = "Aborted"
    /\ call.op = "run"
    /\ rc = 0
    /\ applied # <<>>
    /\ Head(assignments).start_idx < Len(ll_tokens)
    /\ Head(assignments).end_idx >= Len(ll_tokens)

\* The (type, range) pairs the call in progress inserts or is to insert:
\* the assignments of a run under the resolver's type, the attributes of
\* add_any_attrs under their own types on the range of the call.
Insertions ==
    IF call.op = "run"
    THEN LET list == applied \o assignments IN
         [k \in 1..Len(list) |->
            [type |-> attr_type, range |-> <<list[k].start_idx, list[k].end_idx>>]]
    ELSE IF call.op = "add_any_attrs"
    THEN [k \in 1..Len(call.attrs) |->
            [type |-> call.attrs[k].type_id, range |-> <<call.start_idx, call.end_idx>>]]
    ELSE <<>>

\* C11: an insertion through LLLineAttrs::insert or add_any_attrs updates
\* the four indexes as one unit: in every state, the one a panic at an
\* out-of-bounds end_idx leaves included, the (type, range) of an insertion
\* of the call in progress is recorded in all of ranges, starts_at, ends_at
\* and values or in none of them.
C11_AtomicInsertion ==
    \A k \in 1..Len(Insertions) :
        LET T == Insertions[k].type
            range == Insertions[k].range
            recorded == Contains(attrs.ranges, T, range)
        IN  /\ InSlot(attrs.starts_at, range[1], T, range) = recorded
            /\ InSlot(attrs.ends_at, range[2], T, range) = recorded
            /\ HasValue(attrs, T, range) = recorded

\* C12: assert_ll_lines_equals returns when its two handles point to the
\* same line instance and panics when they point to different instances,
\* also when the two lines have the same tokens and attributes: the check
\* compares the instances, never the lines.
C12_LineIdentity ==
    out.op = "assert_ll_lines_equals" =>
        /\ call.op = "run"
        /\ out.first = out.second => pc = "Shared"
        /\ out.first # out.second => pc = "Aborted" /\ assignments = <<>>
        /\ (Handle(out.first).line = Handle(out.second).line
              /\ out.first # out.second) => pc = "Aborted"

\* C12's case: the check was passed the handle of the line being resolved
\* and a handle of another line with the same tokens and attributes, and
\* panicked.
C12_Witness ==
    /\ out.op = "assert_ll_lines_equals"
    /\ {out.first, out.second} = {"ll_line", "twin"}
    /\ Handle(out.first).line = Handle(out.second).line
    /\ selection # <<>>
    /\ selection[1].ll_line = "ll_line"
    /\ pc = "Aborted"

\* C13: absent data is an empty result, never an error. In every state
\* query, for a type no range is recorded under, returns the empty list and
\* find with a matcher that never matches, or on a line without tokens,
\* returns the empty list; a query that was called for such a type has
\* returned the empty list; and a find that was called has returned, with
\* no result that starts at a token index where the matcher yields no pair.
C13_AbsentIsEmpty ==
    /\ \A T \in Types :
          Get(attrs.ranges, T) = <<>> => Query(ll_tokens, attrs, T) = Returned(<<>>)
    /\ LET f == Find(ll_tokens, attrs, Never) IN f.ok /\ f.res = <<>>
    /\ ll_tokens = <<>> =>
          \A matcher \in Matchers :
              LET f == Find(ll_tokens, attrs, matcher) IN f.ok /\ f.res = <<>>
    /\ (call.op = "query" /\ Get(attrs.ranges, call.type) = <<>>) =>
          out.ok /\ out.res = <<>> /\ pc = "Read"
    /\ call.op = "find" =>
          /\ out.ok /\ pc = "Read"
          /\ (call.matcher = Never \/ ll_tokens = <<>>) => out.res = <<>>
          /\ \A i \in 0..(Len(ll_tokens) - 1) :
                MatcherGo(call.matcher, i, attrs) = <<>> =>
                    \A k \in 1..Len(out.res) :
                        out.res[k].start_pos_at # pos_start_at(ll_tokens, i)

\* C13's case: query was called for a type that was never inserted on a
\* line that carries attributes of other types, one of them supplied by a
\* caller, and has returned.
C13_Witness ==
    /\ pc = "Read"
    /\ call.op = "query"
    /\ Get(attrs.ranges, call.type) = <<>>
    /\ out.res = <<>>
    /\ used > 0
    /\ \E T \in Types : Len(Get(attrs.ranges, T)) >= 2

\* The lengths of the token sequences LLLine::new can be passed.
InputLengths == {Len(CreateTokens(input)) : input \in Lines}

\* C14: the line has as many tokens, as many slots of starts_at and as
\* many slots of ends_at as the token sequence passed to LLLine::new, and
\* no step of run, add_any_attrs, query or find changes any of the three
\* numbers.
C14_LengthsFixed ==
    /\ Len(ll_tokens) \in InputLengths
    /\ Len(attrs.starts_at) = Len(ll_tokens)
    /\ Len(attrs.ends_at) = Len(ll_tokens)
    /\ [][ /\ Len(ll_tokens') = Len(ll_tokens)
           /\ Len(attrs'.starts_at) = Len(ll_tokens)
           /\ Len(attrs'.ends_at) = Len(ll_tokens) ]_vars

\* C14's case: after a run has merged an attribute, a later insertion with
\* an index that has no slot has panicked.
C14_Witness ==
    /\ pc = "Aborted"
    /\ call.op = "add_any_attrs"
    /\ call.attrs # <<>>
    /\ call.start_idx >= Len(ll_tokens)
    /\ Get(attrs.ranges, "Kind") # <<>>
    /\ Len(ll_tokens) >= 2

\* Whether a range is well formed on the line: start <= end <= len - 1.
WellFormed(range) == range[1] <= range[2] /\ range[2] <= Len(ll_tokens) - 1

\* C15: in every state no panic has led to, every range in ranges, in a
\* slot of starts_at or ends_at, or with a bucket in values is well formed,
\* start_idx <= end_idx <= len - 1, and no assignment a run has merged has
\* start_idx > end_idx.
C15_WellFormedRanges ==
    pc # "Aborted" =>
        /\ AllRecorded(attrs.ranges, LAMBDA T, range : WellFormed(range))
        /\ \A k \in 1..Len(attrs.starts_at) :
              AllRecorded(attrs.starts_at[k], LAMBDA T, range : WellFormed(range))
        /\ \A k \in 1..Len(attrs.ends_at) :
              AllRecorded(attrs.ends_at[k], LAMBDA T, range : WellFormed(range))
        /\ \A range \in DOMAIN attrs.values : WellFormed(range)
        /\ \A k \in 1..Len(applied) : applied[k].start_idx <= applied[k].end_idx

\* C16: run on a line with tokens invokes the resolver's go exactly once:
\* while go runs, and from then to the end of the run, it has been invoked
\* once; and the selection go is passed holds a handle of the Rc run has
\* made of the line being resolved, the only other handle being run's own,
\* with start_idx = 0 and end_idx = len - 1.
C16_GoOnceOnWholeLine ==
    /\ pc = "Shared" =>
          /\ call.op = "run"
          /\ ll_tokens # <<>>
          /\ go_calls = 1
          /\ rc = 2
          /\ Len(selection) = 1
          /\ selection[1].ll_line = "ll_line"
          /\ Handle(selection[1].ll_line).line = [ll_tokens |-> ll_tokens, attrs |-> attrs]
          /\ selection[1].start_idx = 0
          /\ selection[1].end_idx = Len(ll_tokens) - 1
    /\ pc \in {"GoReturned", "Reclaimed", "Merged"} => go_calls = 1
    /\ (pc = "Aborted" /\ call.op = "run") => go_calls = 1
    /\ (call.op = "run" /\ ll_tokens # <<>>) => go_calls = 1
    /\ selection # <<>> => pc \in {"Shared", "Aborted"}

\* C16's case: run on the line of three tokens is inside go, which holds
\* the selection and has made an assignment.
C16_Witness ==
    /\ pc = "Shared"
    /\ Len(ll_tokens) = 3
    /\ go_calls = 1
    /\ selection = <<[ll_line |-> "ll_line", start_idx |-> 0, end_idx |-> 2]>>
    /\ assignments # <<>>

\* LLLineAttrs::insert called for every attribute of a list in order, under
\* the attribute's type, until one panics.
RECURSIVE InsertEach(_, _, _)
InsertEach(a, range, list) ==
    IF list = <<>> THEN Done(a)
    ELSE LET r == Insert(a, Head(list).type_id, range, Head(list).value)
         IN  IF r.ok THEN InsertEach(r.attrs, range, Tail(list)) ELSE r

\* C17: add_any_attrs(s, e, [v_1..v_n]) leaves ranges, starts_at, ends_at
\* and values as the calls LLLineAttrs::insert((s,e), v_k) for k = 1..n in
\* order leave them, starting from the same store, and panics where they
\* do; with an empty list it completes, changes nothing and makes no entry
\* of values.
C17_ErasedAsTyped ==
    call.op = "add_any_attrs" =>
        LET range == <<call.start_idx, call.end_idx>>
            typed == InsertEach(pre, range, call.attrs)
        IN  /\ pc \in {"Added", "Aborted"}
            /\ (pc = "Added") = typed.ok
            /\ attrs.ranges = typed.attrs.ranges
            /\ attrs.starts_at = typed.attrs.starts_at
            /\ attrs.ends_at = typed.attrs.ends_at
            /\ attrs.values = typed.attrs.values
            /\ (InBounds([start_idx |-> call.start_idx, end_idx |-> call.end_idx])
                  \/ call.attrs = <<>>) => pc = "Added"
            /\ call.attrs = <<>> =>
                  /\ attrs = pre
                  /\ DOMAIN attrs.values = DOMAIN pre.values

\* C17's case: add_any_attrs has inserted two attributes of one type on an
\* in-bounds range that carried a value of that type before.
C17_Witness ==
    /\ pc = "Added"
    /\ call.op = "add_any_attrs"
    /\ Len(call.attrs) = 2
    /\ call.attrs[1].type_id = call.attrs[2].type_id
    /\ HasValue(pre, call.attrs[1].type_id, <<call.start_idx, call.end_idx>>)
    /\ Len(Stored(attrs, call.attrs[1].type_id, <<call.start_idx, call.end_idx>>)) = 3

\* Whether the store holds under type T what it held when the call in
\* progress was made: the same ranges in the same order in ranges and in
\* every slot of starts_at and ends_at, the same values in every bucket, and
\* so the same result of query.
SameUnder(T) ==
    /\ Get(attrs.ranges, T) = Get(pre.ranges, T)
    /\ Len(attrs.starts_at) = Len(pre.starts_at)
    /\ Len(attrs.ends_at) = Len(pre.ends_at)
    /\ \A k \in 1..Len(attrs.starts_at) :
          Get(attrs.starts_at[k], T) = Get(pre.starts_at[k], T)
    /\ \A k \in 1..Len(attrs.ends_at) :
          Get(attrs.ends_at[k], T) = Get(pre.ends_at[k], T)
    /\ \A range \in DOMAIN attrs.values \cup DOMAIN pre.values :
          Stored(attrs, T, range) = Stored(pre, T, range)
    /\ Query(ll_tokens, attrs, T) = Query(ll_tokens, pre, T)

\* C18: at every point of a run of a resolver with attribute type A, for
\* every type T other than A the entries under T in ranges, starts_at and
\* ends_at and the values of type T in every bucket are those from before
\* the run, and query<T>() returns the same list in the same order; and no
\* step changes the tokens or their character positions.
C18_RunFrame ==
    /\ [](call.op = "run" =>
            \A T \in Types \ {call.attr_type} : SameUnder(T))
    /\ [][ll_tokens' = ll_tokens]_vars

\* C18's case: a run has merged two assignments, one of them on the range
\* of a token that carries a tag and a character, and the store has
\* changed.
C18_Witness ==
    /\ pc = "Merged"
    /\ call.attr_type = "Kind"
    /\ Len(applied) = 2
    /\ attrs # pre
    /\ \E k \in 1..Len(applied) :
          LET range == <<applied[k].start_idx, applied[k].end_idx>> IN
          /\ HasValue(pre, "TextTag", range)
          /\ HasValue(pre, "char", range)
          /\ HasValue(attrs, "Kind", range)

====
